---- MODULE Spec2Model ----
(***************************************************************************)
(* A model of the LZAV codec (lzav.h 2.15, stream format 1) as built for a *)
(* little-endian 64-bit target, with or without __AVX__:                   *)
(* lzav_compress_bound,                                                    *)
(* lzav_compress (lzav_write_blk_1, lzav_write_fin_1, lzav_match_len, the  *)
(* two-way hash table) and lzav_decompress.                                *)
(*                                                                         *)
(* Buffers are sequences of bytes (0..255); a C pointer into a buffer is   *)
(* its 0-based index, so buf[i] of the code is At(buf, i) here.            *)
(***************************************************************************)
EXTENDS Integers, Sequences, FiniteSets, TLC

\* ------------------------------------------------------------ constants

LZAV_E_PARAMS == -1
LZAV_E_SRCOOB == -2
LZAV_E_DSTOOB == -3
LZAV_E_REFOOB == -4
LZAV_E_DSTLEN == -5
LZAV_E_UNKFMT == -6

LZAV_WIN_LEN == 16777216
LZAV_LIT_LEN == 526
LZAV_REF_MIN == 6
LZAV_REF_LEN == 276
LZAV_LIT_FIN == 5
LZAV_FMT_CUR == 1

\* sizeof( stack_buf ), the on-stack hash table of lzav_compress, in bytes.
StackBufSize == 16384

\* ------------------------------------------------------- byte helpers

Min(a, b) == IF a < b THEN a ELSE b
Max(a, b) == IF a > b THEN a ELSE b

\* a ^ b, a | b and a & b on values of n bits, bit by bit from the lowest.
RECURSIVE BitOp(_, _, _, _)
BitOp(f, a, b, n) ==
  IF n = 0 THEN 0
  ELSE 2 * BitOp(f, a \div 2, b \div 2, n - 1)
       + (CASE f = "xor" -> (IF a % 2 # b % 2 THEN 1 ELSE 0)
            [] f = "or"  -> (IF a % 2 = 1 \/ b % 2 = 1 THEN 1 ELSE 0)
            [] OTHER     -> (IF a % 2 = 1 /\ b % 2 = 1 THEN 1 ELSE 0))

\* x << k.
RECURSIVE Shl(_, _)
Shl(x, k) == IF k = 0 THEN x ELSE Shl(2 * x, k - 1)

Xor8(a, b) == BitOp("xor", a, b, 8)
Or8(a, b) == BitOp("or", a, b, 8)

\* buf[ i ]; a read outside the buffer yields 0 here and is reported by the
\* access ranges the operations keep.
At(buf, i) == IF i >= 0 /\ i < Len(buf) THEN buf[i + 1] ELSE 0

\* The c bytes buf[ from .. from + c ).
Bytes(buf, from, c) ==
  IF c <= 0 THEN <<>>
  ELSE IF from >= 0 /\ from + c <= Len(buf)
  THEN SubSeq(buf, from + 1, from + c)
  ELSE [k \in 1..c |-> At(buf, from + k - 1)]

\* memcpy( buf + at, bs, Len( bs )) into a buffer written from its start
\* without gaps, of which buf is the part written so far.
Put(buf, at, bs) ==
  IF Len(bs) = 0 THEN buf
  ELSE SubSeq(buf, 1, at) \o bs \o SubSeq(buf, at + Len(bs) + 1, Len(buf))

\* Memory the program has not written holds what was there before. The
\* destination arrays of the harnesses are not initialised, and a caller's
\* destination may hold anything, so the byte at index k before the call
\* is any of 0..255 and no two of them are related. It is kept as what it
\* is, the unknown Prior(k): a value above 255 that stands for every byte
\* the array may hold there. lzav_decompress only copies the destination's
\* bytes and never tests them, so a copy of Prior(k) is Prior(k), and two
\* sequences are equal for every content of the array exactly if they are
\* equal with the unknowns in them.
Prior(k) == 256 + k

\* A destination is the sequence of its bytes up to the last one written;
\* the bytes after them, and those of a gap between two writes, are the
\* prior ones. o[ i ] of a destination:
DAt(o, i) == IF i >= 0 /\ i < Len(o) THEN o[i + 1] ELSE Prior(i)

\* The c bytes o[ from .. from + c ).
DBytes(o, from, c) ==
  IF c <= 0 THEN <<>>
  ELSE IF from >= 0 /\ from + c <= Len(o) THEN SubSeq(o, from + 1, from + c)
  ELSE [k \in 1..c |-> DAt(o, from + k - 1)]

\* memcpy( o + at, bs, Len( bs )), at >= 0.
DPut(o, at, bs) ==
  IF Len(bs) = 0 THEN o
  ELSE IF at > Len(o)
  THEN o \o [k \in 1..(at - Len(o)) |-> Prior(Len(o) + k - 1)] \o bs
  ELSE SubSeq(o, 1, at) \o bs \o SubSeq(o, at + Len(bs) + 1, Len(o))

\* An access range is <<lowest index, highest index>>; <<0, -1>> is empty.
NoAcc == <<0, -1>>
Acc(r, lo, c) == IF c <= 0 THEN r
                 ELSE IF r[2] < r[1] THEN <<lo, lo + c - 1>>
                 ELSE <<Min(r[1], lo), Max(r[2], lo + c - 1)>>
AccJoin(r, q) == IF q[2] < q[1] THEN r ELSE Acc(Acc(r, q[1], 1), q[2], 1)
AccIn(r, n) == r[2] < r[1] \/ (r[1] >= 0 /\ r[2] < n)

\* ------------------------------------------------------------- bound

\* An int is 32 bits wide. A 32-bit word is kept as its two 16-bit halves
\* <<high, low>>; the halves of an int are those of its two's complement.
Halves(x) == <<(x \div 65536) % 65536, x % 65536>>

\* The int whose two's complement is the word h.
ToInt(h) == (IF h[1] >= 32768 THEN h[1] - 65536 ELSE h[1]) * 65536 + h[2]

\* a + b and a * 3 on 32-bit words, the carry out of bit 31 dropped.
AddW(a, b) ==
  <<(a[1] + b[1] + (a[2] + b[2]) \div 65536) % 65536, (a[2] + b[2]) % 65536>>
MulW3(a) == <<(3 * a[1] + (3 * a[2]) \div 65536) % 65536, (3 * a[2]) % 65536>>

\* x / m on ints as C divides: the quotient is truncated towards zero.
DivT(x, m) ==
  IF x >= 0 THEN x \div m
  ELSE -(((-(x + 1)) \div m) + (IF (-(x + 1)) % m = m - 1 THEN 1 ELSE 0))

\* h / m on a 32-bit word taken as unsigned.
DivU(h, m) == (h[1] \div m) * 65536 + ((h[1] % m) * 65536 + h[2]) \div m

\* "srcl + srcl * 3 / LZAV_LIT_LEN + 8" given the quotient q.
BoundSum(srcl, q) == ToInt(AddW(AddW(Halves(srcl), Halves(q)), Halves(8)))

\* lzav_compress_bound( srcl ) with srcl * 3 and the sum wrapping at the
\* width of int and the division signed, as a build without optimisation
\* computes it.
lzav_compress_bound(srcl) ==
  IF srcl <= 0 THEN 8
  ELSE BoundSum(srcl, DivT(ToInt(MulW3(Halves(srcl))), LZAV_LIT_LEN))

\* The same with the division unsigned, as an optimising build computes it
\* (srcl > 0 there, and the compiler takes srcl * 3 not to overflow).
BoundUnsigned(srcl) ==
  IF srcl <= 0 THEN 8
  ELSE BoundSum(srcl, DivU(MulW3(Halves(srcl)), LZAV_LIT_LEN))

\* The overflow of srcl * 3 and of the sum is undefined behaviour: the
\* values a build may return.
BoundResults(srcl) == {lzav_compress_bound(srcl), BoundUnsigned(srcl)}

\* --------------------------------------------------------- match_len

\* A match length that compares nothing.
MatchAll(s, p1, p2, ml) == ml

RECURSIVE MatchFrom(_, _, _, _, _)
MatchFrom(s, p1, p2, ml, l) ==
  IF l >= ml THEN ml
  ELSE IF At(s, p1 + l) # At(s, p2 + l) THEN l
  ELSE MatchFrom(s, p1, p2, ml, l + 1)

\* The number of leading bytes of s + p1 and s + p2 that are equal, at most ml.
lzav_match_len(s, p1, p2, ml) == MatchFrom(s, p1, p2, ml, 0)

\* The number of bytes lzav_match_len loads from each of p1 and p2 when it
\* returns l: 8-byte words while 8 bytes are left of ml, then a 4-byte word
\* if 4 are left, then single bytes; it stops at the first load that holds
\* a difference. (The variant without builtins compares byte by byte and
\* loads no more than this.)
MatchReach(ml, l) ==
  LET q8 == (ml \div 8) * 8
  IN  IF l >= ml THEN ml
      ELSE IF l < q8 THEN (l \div 8) * 8 + 8
      ELSE IF q8 + 3 < ml /\ l < q8 + 4 THEN q8 + 4
      ELSE l + 1

\* -------------------------------------------------------------- hash

\* The 64-bit product of two 32-bit words given as 4 little-endian bytes,
\* as 8 little-endian bytes.
Mul32x32(a, b) ==
  LET col(k) == LET lo == Max(0, k - 3)
                    hi == Min(3, k)
                    t[i \in lo..hi + 1] ==
                      IF i > hi THEN 0 ELSE a[i + 1] * b[k - i + 1] + t[i + 1]
                IN  t[lo]
      c[k \in 0..7] == IF k = 0 THEN col(0)
                       ELSE (IF k <= 6 THEN col(k) ELSE 0) + c[k - 1] \div 256
  IN  [k \in 1..8 |-> c[k - 1] % 256]

\* hval of the main loop: iw1 and iw2 are the 4 and 2 source bytes at ip.
\* The result is the 4 little-endian bytes of hval.
HashVal(iw1, iw2) ==
  LET Seed1 == <<Xor8(136, iw1[1]), Xor8(106, iw1[2]),
                 Xor8(63, iw1[3]), Xor8(36, iw1[4])>>
      m2    == <<Xor8(211, iw2[1]), Xor8(8, iw2[2]), 163, 133>>
      hm    == Mul32x32(Seed1, m2)
  IN  <<Xor8(hm[1], hm[5]), Xor8(hm[2], hm[6]),
        Xor8(hm[3], hm[7]), Xor8(hm[4], hm[8])>>

\* htcap: the capacity the hash table is given for a source of srcl bytes.
RECURSIVE HtCapFrom(_, _)
HtCapFrom(htcap, srcl) ==
  IF htcap # 65536 /\ htcap * 4 < srcl THEN HtCapFrom(htcap * 2, srcl)
  ELSE htcap
HtCap(srcl) == HtCapFrom(256, srcl)
\* A table size that counts the buckets, not their bytes.
HtSizeBuckets(srcl) == HtCap(srcl)

HtSize(srcl) == HtCap(srcl) * 16

\* ( hval & hmask ) / 16: the bucket (2 tuples of 2 words) that hp points at.
Bucket(hval, htsize) ==
  ((hval[1] + 256 * hval[2] + 65536 * hval[3]) % htsize) \div 16

\* ------------------------------------------------------ block writers

\* A writer state w: the destination buffer, the output pointer op, the
\* offset-carry link cbp (*cbpp; -1 is the null pointer), and the ranges of
\* destination indices written (wr) and of source indices read (rd).
NullPtr == -1

WPut(w, at, bs) == [w EXCEPT !.buf = Put(@, at, bs), !.wr = Acc(@, at, Len(bs))]

\* A writer that never splits the literals.
NoLongLits(w, lc, s, ipa) == [w |-> w, lc |-> lc, ipa |-> ipa]

\* The loop "while( lc > LZAV_LIT_LEN )" of lzav_write_blk_1.
RECURSIVE WriteLongLits(_, _, _, _)
WriteLongLits(w, lc, s, ipa) ==
  IF lc > LZAV_LIT_LEN
  THEN LET w1 == WPut(w, w.op, <<0, 255, 255>> \o Bytes(s, ipa, LZAV_LIT_LEN))
       IN  WriteLongLits([w1 EXCEPT !.op = @ + 3 + LZAV_LIT_LEN,
                                    !.rd = Acc(@, ipa, LZAV_LIT_LEN)],
                         lc - LZAV_LIT_LEN, s, ipa + LZAV_LIT_LEN)
  ELSE [w |-> w, lc |-> lc, ipa |-> ipa]

\* The branch "if( lc != 0 )" of lzav_write_blk_1: a literal block of lc
\* bytes whose header carries cv, the two lowest bits of d, in bits 6-7.
WriteLit(w, lc, cv, s, ipa) ==
  LET hdr == IF lc < 1 + 15 THEN <<Or8(cv, lc)>>
             ELSE IF lc < 1 + 15 + 255 THEN <<cv, (lc - 1 - 15) % 256>>
             ELSE <<cv, 255, (lc - 1 - 15 - 255) % 256>>
      \* the bytes the fixed-width copies move, which may exceed lc
      cp  == IF lc < 9 THEN 8
             ELSE IF lc < 1 + 15 THEN 16
             ELSE IF lc < 1 + 15 + 255 THEN Max(24, lc)
             ELSE lc
      w1  == WPut(w, w.op, hdr \o Bytes(s, ipa, cp))
  IN  [w1 EXCEPT !.op = @ + Len(hdr) + lc, !.rd = Acc(@, ipa, cp),
                 !.cbp = NullPtr]

\* "Write reference block" of lzav_write_blk_1: the bytes of the block for
\* the reduced length rc = rc + 1 - mref and the (carried) offset d.
RefBytes(rc, d) ==
  LET lo6 == (d % 4) * 64
  IN  IF d < 1024
      THEN IF rc < 16
           THEN <<lo6 + 16 + rc, (d \div 4) % 256>>
           ELSE <<lo6 + 16, (d \div 4) % 256, (rc - 16) % 256>>
      ELSE IF d < 262144
      THEN IF rc < 16
           THEN <<lo6 + 32 + rc, (d \div 4) % 256, (d \div 1024) % 256>>
           ELSE <<lo6 + 32, (d \div 4) % 256, (d \div 1024) % 256,
                  (rc - 16) % 256>>
      ELSE IF rc < 16
           THEN <<48 + rc, d % 256, (d \div 256) % 256, (d \div 65536) % 256>>
           ELSE <<48, d % 256, (d \div 256) % 256, (d \div 65536) % 256,
                  Or8((d \div 16777216) % 256, (rc - 16) % 256)>>

\* lzav_write_blk_1( op, lc, rc, d, ipa, cbpp, mref ) with s the source
\* buffer that ipa points into.
lzav_write_blk_1(w, lc, rc, d, s, ipa, mref) ==
  LET l  == WriteLongLits(w, lc, s, ipa)
      w1 == IF l.lc # 0
            THEN WriteLit(l.w, l.lc, (d % 4) * 64, s, l.ipa)
            ELSE IF l.w.cbp # NullPtr
            THEN [l.w EXCEPT
                    !.buf = Put(@, l.w.cbp,
                                <<Or8(At(l.w.buf, l.w.cbp), (d % 4) * 64)>>),
                    !.wr = Acc(@, l.w.cbp, 1),
                    !.cbp = NullPtr]
            ELSE l.w
      d1 == IF l.lc # 0 \/ l.w.cbp # NullPtr THEN d \div 4 ELSE d
      bs == RefBytes(rc + 1 - mref, d1)
      w2 == WPut(w1, w1.op, bs)
  IN  [w2 EXCEPT !.op = @ + Len(bs),
                 !.cbp = IF d1 >= 262144 THEN w1.op ELSE w1.cbp]

\* A finish that writes all lc literals as one block with a 1-byte header.
FinNoSplit(w, lc, s, ipa) ==
  [WPut(w, w.op, <<lc % 256>> \o Bytes(s, ipa, lc))
     EXCEPT !.op = @ + 1 + lc, !.rd = Acc(@, ipa, lc)]

\* lzav_write_fin_1( op, lc, ipa ).
RECURSIVE lzav_write_fin_1(_, _, _, _)
lzav_write_fin_1(w, lc, s, ipa) ==
  IF lc > 15
  THEN LET wc0 == lc - LZAV_LIT_FIN
           wc  == IF wc0 < 1 + 15 THEN wc0 ELSE Min(wc0, LZAV_LIT_LEN)
           hdr == IF wc < 1 + 15 THEN <<wc>>
                  ELSE IF wc < 1 + 15 + 255 THEN <<0, (wc - 1 - 15) % 256>>
                  ELSE <<0, 255, (wc - 1 - 15 - 255) % 256>>
           w1  == WPut(w, w.op, hdr \o Bytes(s, ipa, wc))
       IN  lzav_write_fin_1([w1 EXCEPT !.op = @ + Len(hdr) + wc,
                                       !.rd = Acc(@, ipa, wc)],
                            lc - wc, s, ipa + wc)
  ELSE LET w1 == WPut(w, w.op, <<lc % 256>> \o Bytes(s, ipa, lc))
       IN  [w1 EXCEPT !.op = @ + 1 + lc, !.rd = Acc(@, ipa, lc)]

\* ------------------------------------------------------------- state

VARIABLES
  pc,      \* where the run is: "c_call", "c_loop", "c_ret", "d_call", "d_loop", "d_ret"
  cargs,   \* the arguments of lzav_compress: src, dst, ext_buf (addresses), srcl, dstl, ext_bufl
  srcbuf,  \* the bytes at src
  enc,     \* lzav_compress's locals: ip, ipa, mavg, rndb, ht; mem is where ht lives,
           \* bound the value lzav_compress_bound( srcl ) had at line 614
           \* ("stack", "ext", "heap"; "failed" when malloc returned 0)
  w,       \* the destination of lzav_compress: buf (the bytes written so far), op,
           \* cbp, and the ranges wr, rd
  cret,    \* the value lzav_compress returned
  dargs,   \* the arguments of lzav_decompress: src, dst (addresses), srcl, dstl
  y,       \* the bytes at the decompressor's src
  out,     \* the bytes at the decompressor's dst, up to the last one written
  dec,     \* lzav_decompress's locals: ip, op, bh, cv, csh, mref1; avx is whether
           \* the build that runs defines __AVX__
  dacc,    \* the ranges of indices lzav_decompress accessed: s (source), d (destination)
  dret,    \* the value lzav_decompress returned
  calls    \* the (lc, rc, d) of the lzav_write_blk_1 calls made on w, oldest
           \* first

vars == <<pc, cargs, srcbuf, enc, w, cret, dargs, y, out, dec, dacc,
          dret, calls>>
cvars == <<cargs, srcbuf, enc, w, cret>>
dvars == <<dargs, y, out, dec, dacc, dret>>

\* Addresses: 0 is the null pointer, two arguments alias iff equal.
Null == 0

\* --------------------------------------------------------- compressor

\* initv: what every tuple pair of the hash table is initialised to. A key
\* is the 4 source bytes it was read from; an offset is a source index.
InitV(s, srcl) ==
  LET ip   == LZAV_REF_MIN
      ipet == srcl - LZAV_LIT_FIN - LZAV_REF_MIN + 1
      k    == IF ip < ipet THEN Bytes(s, ip, 4) ELSE <<0, 0, 0, 0>>
  IN  <<k, LZAV_REF_MIN, k, LZAV_REF_MIN>>

\* The hash table holds HtCap( srcl ) buckets hp[ 0..3 ]; the model keeps the
\* buckets written since the initialisation loop, every other one is initv.
HtGet(ht, b, s, srcl) == IF b \in DOMAIN ht THEN ht[b] ELSE InitV(s, srcl)
HtSet(ht, b, hp) == (b :> hp) @@ ht

\* A search that tries the second tuple only when the first tuple's key is
\* not iw1, and on a miss replaces the first tuple when its key is iw1, the
\* second one otherwise.
FindByFirstKey(hp, b, iw1, iw2, ipo, s) ==
  LET differs(wpo) == iw2 # Bytes(s, wpo + 4, 2)
      rd0    == Acc(NoAcc, ipo, 6)
      rd(wpo) == Acc(rd0, wpo + 4, 2)
      res(wp, wpo, hp1, r) ==
        [wp |-> wp, wpo |-> wpo, hp |-> hp1, b |-> b, iw1 |-> iw1, rd |-> r]
  IN  IF iw1 = hp[1]
      THEN IF differs(hp[2])
           THEN res(FALSE, 0, <<iw1, ipo, hp[3], hp[4]>>, rd(hp[2]))
           ELSE res(TRUE, hp[2], hp, rd(hp[2]))
      ELSE IF iw1 = hp[3] /\ ~differs(hp[4])
           THEN res(TRUE, hp[4], hp, rd(hp[4]))
           ELSE res(FALSE, 0, <<hp[1], hp[2], iw1, ipo>>, rd0)

\* "Find source data in hash-table tuples" in the bucket hp, for the words
\* iw1, iw2 read at ipo: the tuple found (wp = FALSE is the code's wp == 0),
\* the bucket as the search leaves it, and the source indices read.
Find(hp, b, iw1, iw2, ipo, s) ==
  LET differs(wpo) == iw2 # Bytes(s, wpo + 4, 2)
      rd0    == Acc(NoAcc, ipo, 6)
      rd(wpo) == Acc(rd0, wpo + 4, 2)
      res(wp, wpo, hp1, r) ==
        [wp |-> wp, wpo |-> wpo, hp |-> hp1, b |-> b, iw1 |-> iw1, rd |-> r]
      miss2(r) == res(FALSE, 0, <<hp[1], hp[2], iw1, ipo>>, r)
      miss1(r) == res(FALSE, 0, <<iw1, ipo, hp[3], hp[4]>>, r)
      second(r) == IF differs(hp[4])
                   THEN miss1(AccJoin(r, rd(hp[4])))
                   ELSE res(TRUE, hp[4], hp, AccJoin(r, rd(hp[4])))
  IN  IF iw1 = hp[1]
      THEN IF differs(hp[2])
           THEN IF iw1 # hp[3] THEN miss2(rd(hp[2])) ELSE second(rd(hp[2]))
           ELSE res(TRUE, hp[2], hp, rd(hp[2]))
      ELSE IF iw1 # hp[3] THEN miss2(rd0) ELSE second(rd0)

\* "Hash-table access": hp for the hash of iw1, iw2.
FindIn(b, iw1, iw2, ipo, s, srcl, ht) ==
  Find(HtGet(ht, b, s, srcl), b, iw1, iw2, ipo, s)

\* "Hash source data": the 6 bytes at ip as iw1, iw2, their hash, the search.
Hashed(iw1, iw2, ipo, s, srcl, ht) ==
  FindIn(Bucket(HashVal(iw1, iw2), HtSize(srcl)), iw1, iw2, ipo, s, srcl, ht)

Lookup(s, srcl, ht, ip) ==
  Hashed(Bytes(s, ip, 4), Bytes(s, ip + 4, 2), ip, s, srcl, ht)

ipe(srcl) == srcl - LZAV_LIT_FIN
ipet(srcl) == ipe(srcl) - LZAV_REF_MIN + 1

\* x >> k on an int, as the arithmetic shift the build performs; m is 2^k.
Sar(x, m) == IF x >= 0 THEN x \div m ELSE -((-x + m - 1) \div m)

\* A miss that leaves ip where it is.
MissStay(ip, ipa, mavg0, rndb) == [ip |-> ip, mavg |-> mavg0, rndb |-> rndb]

\* The branch "if( wp == 0 )" of the main loop: the new ip, mavg and rndb.
MissStep(ip, ipa, mavg0, rndb) ==
  LET mavg == mavg0 - Sar(mavg0, 2048)
  IN  IF mavg < 200 * 32768 /\ ip # ipa
      THEN LET ip1 == ip + (IF rndb = 1 THEN 3 ELSE 2)
               ip2 == IF mavg < 130 * 32768 THEN ip1 + 1 ELSE ip1
               ip3 == IF mavg < 130 * 32768 /\ mavg < 100 * 32768
                      THEN ip2 + (100 - Sar(mavg, 32768)) ELSE ip2
           IN  [ip |-> ip3, mavg |-> mavg, rndb |-> ip % 2]
      ELSE [ip |-> ip + 1, mavg |-> mavg, rndb |-> rndb]

\* "Source data and hash-table entry match": from the tuple found at wpo
\* to the arguments of lzav_write_blk_1 and the next ip.
MatchStep(s, srcl, ip0, ipa, wpo, hp0, iw1) ==
  LET d   == ip0 - wpo
      hp  == IF d > LZAV_REF_LEN
             THEN IF iw1 # hp0[1] THEN <<iw1, ip0, hp0[1], hp0[2]>>
                  ELSE <<hp0[1], ip0, hp0[3], hp0[4]>>
             ELSE hp0
      ml0 == IF d > LZAV_REF_LEN THEN LZAV_REF_LEN ELSE d
      ml  == IF ip0 + ml0 > ipe(srcl) THEN ipe(srcl) - ip0 ELSE ml0
      lc0 == ip0 - ipa
      try == lc0 # 0 /\ lc0 < LZAV_REF_MIN
      rc2 == IF try THEN lzav_match_len(s, ip0 - lc0, wpo - lc0, ml) ELSE 0
      acc == try /\ rc2 >= LZAV_REF_MIN
      ip  == IF acc THEN ip0 - lc0 ELSE ip0
      lc  == IF acc THEN 0 ELSE lc0
      rc  == IF acc THEN rc2
             ELSE LZAV_REF_MIN + lzav_match_len(s, ip0 + LZAV_REF_MIN,
                                   wpo + LZAV_REF_MIN, ml - LZAV_REF_MIN)
      \* the source indices the two comparisons load
      n2  == IF try THEN MatchReach(ml, rc2) ELSE 0
      rd2 == Acc(Acc(NoAcc, ip0 - lc0, n2), wpo - lc0, n2)
      n1  == IF acc THEN 0
             ELSE MatchReach(ml - LZAV_REF_MIN, rc - LZAV_REF_MIN)
      rd1 == Acc(Acc(rd2, ip0 + LZAV_REF_MIN, n1), wpo + LZAV_REF_MIN, n1)
  IN  [d |-> d, hp |-> hp, ml |-> ml, lc |-> lc, rc |-> rc, ip |-> ip,
       lazy |-> acc, rd |-> rd1]

\* The argument check without "src == dst".
RejectsNoAlias(a, b) ==
  \/ a.srcl <= 0 \/ a.src = Null \/ a.dst = Null
  \/ a.dstl < b

\* The short stream without its zero padding.
ShortNoPad(s, srcl) ==
  <<LZAV_FMT_CUR * 16 + LZAV_REF_MIN, srcl % 256>> \o Bytes(s, 0, srcl)

\* The condition of lines 613-614 on the arguments a, under which
\* lzav_compress returns 0 at once; b is the value lzav_compress_bound(
\* srcl ) has in the build.
Rejects(a, b) ==
  \/ a.srcl <= 0 \/ a.src = Null \/ a.dst = Null \/ a.src = a.dst
  \/ a.dstl < b

\* "Handle a very short source data": the 2 + LZAV_LIT_FIN bytes written.
ShortStream(s, srcl) ==
  <<LZAV_FMT_CUR * 16 + LZAV_REF_MIN, srcl % 256>> \o Bytes(s, 0, srcl)
  \o [k \in 1..(LZAV_LIT_FIN - srcl) |-> 0]

\* lzav_compress, lines 613-701: the parameter checks, the short path, the
\* choice of the hash table's memory and the initialisation of the locals.
\* malloc may fail, and the bound is any of the values a build computes.
CompressCall ==
  /\ pc = "c_call"
  /\ \E b \in BoundResults(cargs.srcl) :
     LET srcl == cargs.srcl
         htsize == HtSize(srcl)
         entered(mem) ==
           /\ pc' = "c_loop"
           /\ enc' = [ip |-> LZAV_REF_MIN, ipa |-> 0, mavg |-> 100 * 4194304,
                      rndb |-> 0, ht |-> <<>>, mem |-> mem, bound |-> b]
           /\ w' = [WPut(w, 0, <<LZAV_FMT_CUR * 16 + LZAV_REF_MIN>>) EXCEPT
                      !.op = 1, !.cbp = NullPtr,
                      !.rd = IF LZAV_REF_MIN < ipet(srcl)
                             THEN Acc(@, LZAV_REF_MIN, 4) ELSE @]
           /\ UNCHANGED cret
         returned(r, mem) ==
           /\ pc' = "c_ret"
           /\ cret' = r
           /\ enc' = [enc EXCEPT !.mem = mem, !.bound = b]
           /\ UNCHANGED w
     IN  IF Rejects(cargs, b)
         THEN returned(0, "none")
         ELSE IF srcl <= LZAV_LIT_FIN
         THEN /\ pc' = "c_ret"
              /\ cret' = 2 + LZAV_LIT_FIN
              /\ w' = [WPut(w, 0, ShortStream(srcbuf, srcl))
                         EXCEPT !.op = 2 + LZAV_LIT_FIN,
                                !.rd = Acc(@, 0, srcl)]
              /\ enc' = [enc EXCEPT !.bound = b]
         ELSE IF htsize > StackBufSize
         THEN IF cargs.ext_buf # Null /\ cargs.ext_bufl >= htsize
              THEN entered("ext")
              ELSE \/ returned(0, "failed")
                   \/ entered("heap")
         ELSE entered("stack")
  /\ UNCHANGED <<cargs, srcbuf, dvars, calls>>

\* What the loop does with a lookup f that found no tuple: m is MissStep's.
Missed(f, m) ==
  /\ ~f.wp
  /\ enc' = [enc EXCEPT !.ip = m.ip, !.mavg = m.mavg, !.rndb = m.rndb,
                        !.ht = HtSet(@, f.b, f.hp)]
  /\ w' = [w EXCEPT !.rd = AccJoin(@, f.rd)]

\* One iteration of the main loop that ends in "if( wp == 0 )".
CompMiss ==
  /\ pc = "c_loop"
  /\ enc.ip < ipet(cargs.srcl)
  /\ Missed(Lookup(srcbuf, cargs.srcl, enc.ht, enc.ip),
            MissStep(enc.ip, enc.ipa, enc.mavg, enc.rndb))
  /\ UNCHANGED <<pc, cargs, srcbuf, cret, dvars, calls>>

\* A check of the offset that lets the small ones through.
TooNearFarOnly(d) == d >= LZAV_WIN_LEN

\* d of a lookup f that found a tuple, and the code's test of it.
TooNear(d) == d <= 7 \/ d >= LZAV_WIN_LEN

\* What the loop does with a tuple at a distance it refuses.
Refused(f, d) ==
  /\ f.wp
  /\ TooNear(d)
  /\ enc' = [enc EXCEPT
               !.ip = @ + 1,
               !.ht = IF d >= LZAV_WIN_LEN
                      THEN HtSet(@, f.b,
                             IF f.iw1 # f.hp[1]
                             THEN <<f.hp[1], f.hp[2], f.hp[3], enc.ip>>
                             ELSE <<f.hp[1], enc.ip, f.hp[3], f.hp[4]>>)
                      ELSE HtSet(@, f.b, f.hp)]
  /\ w' = [w EXCEPT !.rd = AccJoin(@, f.rd)]

Near(f) == Refused(f, enc.ip - f.wpo)

\* One iteration that ends in "if(( d <= 7 ) | ( d >= LZAV_WIN_LEN ))".
CompNear ==
  /\ pc = "c_loop"
  /\ enc.ip < ipet(cargs.srcl)
  /\ Near(Lookup(srcbuf, cargs.srcl, enc.ht, enc.ip))
  /\ UNCHANGED <<pc, cargs, srcbuf, cret, dvars, calls>>

\* The block written for the match m found through the lookup f.
Emit(f, m) ==
  /\ enc' = [enc EXCEPT
               !.ip = m.ip + m.rc, !.ipa = m.ip + m.rc,
               !.mavg = @ + Sar(m.rc * 4194304 - @, 1024),
               !.ht = HtSet(@, f.b, m.hp)]
  /\ w' = [lzav_write_blk_1(w, m.lc, m.rc, m.d, srcbuf, enc.ipa, LZAV_REF_MIN)
             EXCEPT !.rd = AccJoin(AccJoin(@, f.rd), m.rd)]
  /\ calls' = Append(calls, [lc |-> m.lc, rc |-> m.rc, d |-> m.d])

Matched(f) ==
  /\ f.wp
  /\ ~TooNear(enc.ip - f.wpo)
  /\ Emit(f, MatchStep(srcbuf, cargs.srcl, enc.ip, enc.ipa, f.wpo, f.hp, f.iw1))

\* One iteration that writes a block: lines 826-884.
CompMatch ==
  /\ pc = "c_loop"
  /\ enc.ip < ipet(cargs.srcl)
  /\ Matched(Lookup(srcbuf, cargs.srcl, enc.ht, enc.ip))
  /\ UNCHANGED <<pc, cargs, srcbuf, cret, dvars>>

\* After the main loop: lines 887-893.
CompressFinish ==
  /\ pc = "c_loop"
  /\ ~(enc.ip < ipet(cargs.srcl))
  /\ LET w1 == lzav_write_fin_1(w, ipe(cargs.srcl) - enc.ipa + LZAV_LIT_FIN,
                                srcbuf, enc.ipa)
     IN  /\ w' = w1
         /\ cret' = w1.op
  /\ pc' = "c_ret"
  /\ enc' = [enc EXCEPT !.ht = <<>>]
  /\ UNCHANGED <<cargs, srcbuf, dvars, calls>>

\* ------------------------------------------------------- decompressor

\* LZAV_MEMMOVE( out + op, out + ipd, c ): the c bytes are read, then written.
MemMove(o, op, ipd, c) == DPut(o, op, DBytes(o, ipd, c))

\* "while( cc > 0 ) { *op = *ipd; ipd++; op++; cc--; }" within one buffer,
\* ipd = op - d: byte i of the copy is byte i - d of it when i >= d.
ByteCopy(o, op, d, cc) ==
  IF cc <= 0 THEN o
  ELSE DPut(o, op, [k \in 1..cc |->
                      IF d = 0 THEN DAt(o, op + k - 1)
                      ELSE DAt(o, op - d + ((k - 1) % d))])

\* What one block does to the decompressor: ret = 0 to go on with the loop,
\* else the value returned; s and d are the source and destination indices
\* the block accessed.
Go(ip, op, bh, cv, csh, o, s, d) ==
  [ret |-> 0, ip |-> ip, op |-> op, bh |-> bh, cv |-> cv, csh |-> csh,
   out |-> o, s |-> s, d |-> d]
Stop(ret, dc, o, s, d) ==
  [ret |-> ret, ip |-> dc.ip, op |-> dc.op, bh |-> dc.bh, cv |-> dc.cv,
   csh |-> dc.csh, out |-> o, s |-> s, d |-> d]

\* A literal block that is never found to run past the source.
LitSrcOobNever(ip1, srcl) == FALSE

\* A wide literal copy that looks at the destination only.
LitFastDst(op, opet, ipd, wide, srcl) == op < opet

\* "ip > ipe" after a literal's bytes were skipped: the block runs past the
\* source.
LitSrcOob(ip1, srcl) == ip1 > srcl

\* "( op < opet ) & ( ipd + 15 < ipe )", and the same with 63: the wide
\* copy of a literal block must fit both buffers.
LitFast(op, opet, ipd, wide, srcl) == op < opet /\ ipd + wide - 1 < srcl

\* Block type 0, lines 1013-1115.
DecLit(yy, srcl, o, dstl, dc) ==
  LET ip   == dc.ip
      op   == dc.op
      bh   == dc.bh
      ope  == dstl
      opet == dstl - 63
      cv   == bh \div 64
      cc0  == bh % 16
      l2   == At(yy, ip + 1)
      lb   == IF l2 = 255 THEN 1 ELSE 0
      cc   == IF cc0 # 0 THEN cc0
              ELSE 16 + l2 + (IF lb = 1 THEN At(yy, ip + 2) ELSE 0)
      ipd  == IF cc0 # 0 THEN ip + 1 ELSE ip + 2 + lb
      ip1  == ipd + cc
      s0   == IF cc0 # 0 THEN Acc(NoAcc, ip, 1) ELSE Acc(NoAcc, ip, 3)
      s1   == IF ip1 < srcl THEN Acc(s0, ip1, 1) ELSE s0
      bh1  == IF ip1 < srcl THEN At(yy, ip1) ELSE bh
      dc1  == [dc EXCEPT !.cv = cv, !.csh = 2]
      wide == IF cc0 # 0 THEN 16 ELSE 64
      fast == LitFast(op, opet, ipd, wide, srcl)
      o1   == IF fast THEN DPut(o, op, Bytes(yy, ipd, wide)) ELSE o
      s2   == IF fast THEN Acc(s1, ipd, wide) ELSE s1
      d1   == IF fast THEN Acc(NoAcc, op, wide) ELSE NoAcc
      \* what is left for the byte-wise loop
      skip == IF fast THEN wide ELSE 0
  IN  IF LitSrcOob(ip1, srcl) THEN Stop(LZAV_E_SRCOOB, dc1, o, s1, NoAcc)
      ELSE IF fast /\ cc <= wide
      THEN Go(ip1, op + cc, bh1, cv, 2, o1, s2, d1)
      ELSE IF op + cc > ope
      THEN Stop(LZAV_E_DSTOOB, [dc1 EXCEPT !.ip = ip1, !.bh = bh1,
                                           !.op = op + skip], o1, s2, d1)
      ELSE Go(ip1, op + cc, bh1, cv, 2,
              DPut(o1, op + skip, Bytes(yy, ipd + skip, cc - skip)),
              Acc(s2, ipd + skip, cc - skip), Acc(d1, op + skip, cc - skip))

\* The fields of a reference block whose header bh is at ip: its type, the
\* offset bits x, the length byte that follows the offset (when the low
\* nibble is 0), the block's size, the next header and the bytes read.
RefFields(yy, ip, bh) ==
  LET long == (bh % 16) = 0
      b(i) == At(yy, ip + i)
      ty   == (bh \div 16) % 4
  IN  IF ty = 2
      THEN [ty |-> 2, x |-> bh \div 64 + 4 * (b(1) + 256 * b(2)),
            ext |-> b(3), len |-> IF long THEN 4 ELSE 3,
            bh |-> IF long THEN b(4) ELSE b(3),
            rd |-> IF long THEN 5 ELSE 4]
      ELSE IF ty = 3
      THEN [ty |-> 3, x |-> b(1) + 256 * b(2) + 65536 * b(3),
            ext |-> b(4), len |-> IF long THEN 5 ELSE 4,
            bh |-> IF long THEN b(5) ELSE b(4),
            rd |-> IF long THEN 6 ELSE 5]
      ELSE [ty |-> 1, x |-> bh \div 64 + 4 * b(1),
            ext |-> b(2), len |-> IF long THEN 3 ELSE 2,
            bh |-> IF long THEN b(3) ELSE b(2),
            rd |-> IF long THEN 4 ELSE 3]

\* An offset that is never found to reach before the destination.
RefOobNever(d, op) == FALSE

\* "(uint8_t*) dst + d > op" of LZAV_SET_IPD_CV: the offset reaches before
\* the start of the destination.
RefOob(d, op) == d > op

\* The number of stream bytes the block at ip takes: header, length and
\* offset bytes, and for a literal block its bytes.
BlockSize(yy, ip) ==
  IF (At(yy, ip) \div 16) % 4 # 0 THEN RefFields(yy, ip, At(yy, ip)).len
  ELSE IF (At(yy, ip) % 16) # 0 THEN 1 + (At(yy, ip) % 16)
  ELSE IF At(yy, ip + 1) # 255 THEN 2 + 16 + At(yy, ip + 1)
  ELSE 3 + 16 + 255 + At(yy, ip + 2)

\* Where the last block of the n-byte stream yy starts, going block by
\* block from ip; -1 if no block ends at n.
RECURSIVE LastBlock(_, _, _)
LastBlock(yy, ip, n) ==
  IF ip + BlockSize(yy, ip) = n THEN ip
  ELSE IF ip + BlockSize(yy, ip) > n THEN -1
  ELSE LastBlock(yy, ip + BlockSize(yy, ip), n)

\* An offset taken from the block's bits alone, without the carry.
OffsetNoCarry(x, csh, cv) == x

\* LZAV_SET_IPD_CV: d = ( x ) << csh | cv, with csh 0 or 2 and cv < 4.
RefOffset(x, csh, cv) ==
  LET xs == Shl(x, csh)
  IN  xs - (xs % 4) + Or8(xs % 4, cv)

\* The wide copy of a reference block on the path "op < opet". Without
\* __AVX__: 16 + 4 bytes for a short block, 4 * 16 bytes for a long one.
\* With __AVX__: 32 bytes for a short block, 2 * 32 bytes for a long one.
WideRef(o, op, ipd, long, avx) ==
  IF avx
  THEN IF long
       THEN MemMove(MemMove(o, op, ipd, 32), op + 32, ipd + 32, 32)
       ELSE MemMove(o, op, ipd, 32)
  ELSE IF long
  THEN MemMove(MemMove(MemMove(MemMove(o, op, ipd, 16),
                 op + 16, ipd + 16, 16), op + 32, ipd + 32, 16),
                 op + 48, ipd + 48, 16)
  ELSE MemMove(MemMove(o, op, ipd, 16), op + 16, ipd + 16, 4)

\* Block types 1-3, lines 1117-1269.
DecRef(yy, srcl, o, dstl, dc) ==
  LET ip   == dc.ip
      op   == dc.op
      bh   == dc.bh
      ope  == dstl
      opet == dstl - 63
      long == (bh % 16) = 0
      f    == RefFields(yy, ip, bh)
      cc   == IF long THEN 16 + dc.mref1 + f.ext ELSE (bh % 16) + dc.mref1
      d    == RefOffset(f.x, dc.csh, dc.cv)
      ipd  == op - d
      cv1  == IF f.ty = 3 THEN bh \div 64 ELSE 0
      csh1 == IF f.ty = 3 THEN 2 ELSE 0
      s1   == Acc(NoAcc, ip, f.rd)
      \* a type 1 block is refused before its length and next header are read
      s0   == IF f.ty = 1 THEN Acc(NoAcc, ip, 2) ELSE IF f.ty = 2 /\ ~long
              THEN Acc(NoAcc, ip, 3) ELSE Acc(NoAcc, ip, 5)
      wide == IF long THEN 64 ELSE IF dc.avx THEN 32 ELSE 20
      fast == op < opet
      o1   == IF fast THEN WideRef(o, op, ipd, long, dc.avx) ELSE o
      d1   == IF fast THEN Acc(Acc(NoAcc, ipd, wide), op, wide) ELSE NoAcc
      skip == IF fast THEN wide ELSE 0
      dc1  == [dc EXCEPT !.ip = ip + f.len, !.bh = f.bh, !.cv = cv1,
                         !.csh = csh1]
  IN  IF RefOob(d, op) THEN Stop(LZAV_E_REFOOB, dc, o, s0, NoAcc)
      ELSE IF fast /\ (~long \/ cc <= 64)
      THEN Go(ip + f.len, op + cc, f.bh, cv1, csh1, o1, s1, d1)
      ELSE IF op + cc > ope
      THEN Stop(LZAV_E_DSTOOB, [dc1 EXCEPT !.op = op + skip], o1, s1, d1)
      ELSE Go(ip + f.len, op + cc, f.bh, cv1, csh1,
              ByteCopy(o1, op + skip, d, cc - skip), s1,
              Acc(Acc(d1, ipd + skip, cc - skip), op + skip, cc - skip))

\* The pointer check without "src == dst".
BadParamsNoAlias(a) == a.src = Null \/ a.dst = Null \/ a.dstl <= 0

\* An empty source that is always accepted.
EmptyRetZero(dstl) == 0

\* A finish that returns the cursor whatever dstl is.
FinishRetOp(op, dstl) == op

\* The condition of line 959 on the arguments a.
BadParams(a) ==
  a.src = Null \/ a.dst = Null \/ a.src = a.dst \/ a.dstl <= 0

\* What line 956 returns for srcl == 0.
EmptyRet(dstl) == IF dstl = 0 THEN 0 ELSE LZAV_E_PARAMS

\* The format check of line 964 on the prefix byte b0.
UnkFmt(b0) == b0 \div 16 # 1

\* The return value of lines 1272-1277.
FinishRet(op, dstl) == IF op # dstl THEN LZAV_E_DSTLEN ELSE op

\* lzav_decompress, lines 949-1009: the parameter checks, the format check
\* and the initialisation of the locals, in a build with or without
\* __AVX__.
DecompressCall ==
  /\ pc = "d_call"
  /\ \E a \in BOOLEAN :
     LET srcl == dargs.srcl
         returned(r, s) ==
           /\ pc' = "d_ret"
           /\ dret' = r
           /\ dacc' = [dacc EXCEPT !.s = s]
           /\ UNCHANGED dec
     IN  IF srcl < 0 THEN returned(LZAV_E_PARAMS, NoAcc)
         ELSE IF srcl = 0
         THEN returned(EmptyRet(dargs.dstl), NoAcc)
         ELSE IF BadParams(dargs)
         THEN returned(LZAV_E_PARAMS, NoAcc)
         ELSE IF UnkFmt(At(y, 0))
         THEN returned(LZAV_E_UNKFMT, Acc(NoAcc, 0, 1))
         ELSE /\ pc' = "d_loop"
              /\ dec' = [ip |-> 1, op |-> 0,
                         bh |-> IF 1 < srcl - 5 THEN At(y, 1) ELSE 0,
                         cv |-> 0, csh |-> 0, mref1 |-> (At(y, 0) % 16) - 1,
                         avx |-> a]
              /\ dacc' = [dacc EXCEPT
                            !.s = IF 1 < srcl - 5 THEN Acc(NoAcc, 0, 2)
                                  ELSE Acc(NoAcc, 0, 1)]
              /\ UNCHANGED dret
  /\ UNCHANGED <<dargs, y, out, cvars, calls>>

\* What a block b of the loop leaves behind.
DecStep(b) ==
  /\ dec' = [dec EXCEPT !.ip = b.ip, !.op = b.op, !.bh = b.bh, !.cv = b.cv,
                        !.csh = b.csh]
  /\ out' = b.out
  /\ dacc' = [s |-> AccJoin(dacc.s, b.s), d |-> AccJoin(dacc.d, b.d)]
  /\ IF b.ret = 0
     THEN UNCHANGED <<pc, dret>>
     ELSE pc' = "d_ret" /\ dret' = b.ret
  /\ UNCHANGED <<dargs, y, cvars, calls>>

\* One iteration of the loop on a literal block.
DecLiteral ==
  /\ pc = "d_loop"
  /\ dec.ip < dargs.srcl - 5
  /\ (dec.bh \div 16) % 4 = 0
  /\ DecStep(DecLit(y, dargs.srcl, out, dargs.dstl, dec))

\* One iteration of the loop on a reference block.
DecReference ==
  /\ pc = "d_loop"
  /\ dec.ip < dargs.srcl - 5
  /\ (dec.bh \div 16) % 4 # 0
  /\ DecStep(DecRef(y, dargs.srcl, out, dargs.dstl, dec))

\* After the loop: lines 1272-1277.
DecFinish ==
  /\ pc = "d_loop"
  /\ ~(dec.ip < dargs.srcl - 5)
  /\ pc' = "d_ret"
  /\ dret' = FinishRet(dec.op, dargs.dstl)
  /\ UNCHANGED <<dargs, y, out, dec, dacc, cvars, calls>>

\* ------------------------------------------------------------- inputs

\* Bounds of the sources the compressor is run on.
MaxLen == 34
MaxPeriod == 10
MaxLead == 2
DefectStep == 9
\* How far the decompressor's dstl exceeds the source length when it does.
Slack == 70

\* A source of n bytes: u leading bytes that occur nowhere else, then a
\* pattern of period p, with byte q (if any) replaced by 255.
Gen(n, p, u, q) ==
  [k \in 1..n |->
     IF k - 1 = q THEN 255
     ELSE IF k - 1 < u THEN 200 + k - 1
     ELSE 65 + ((k - 1 - u) % p)]

Sources ==
  {Gen(n, p, u, q) : n \in 1..MaxLen, p \in 1..MaxPeriod, u \in 0..MaxLead,
                     q \in {-1} \cup {j \in 0..MaxLen : j % DefectStep = 4}}

\* Longer sources: bytes without a repeated 4-byte group, and pieces of
\* them repeated further on.
LongLit == 600
HeapLen == 4097
Mix(i) == (i * i + i \div 3 + 5 * (i \div 7)) % 256
Seg(from, n) == [k \in 1..n |-> Mix(from + k - 1)]

BigSources ==
  { Gen(80, 1, 0, -1),
    Gen(60, 24, 0, -1),
    Seg(0, LongLit),
    Seg(0, 300) \o Seg(10, 30),
    Seg(0, LZAV_LIT_LEN) \o Seg(10, 30),
    Seg(0, LZAV_LIT_LEN + 1) \o Seg(10, 30),
    Seg(0, 1100) \o Seg(6, 14) \o Seg(60, 40) \o Seg(200, 12) }

\* Sources in which a 4-byte group comes back followed by 2 other bytes in
\* a bucket that holds it: as the key of the first tuple only, of the
\* second tuple only, and of both with the second tuple the matching one.
BucketSources ==
  { <<98, 97, 97, 97, 98, 97, 98, 97, 98, 98, 98, 97, 98, 98, 98, 98, 98,
      97, 97, 98, 98>>,
    <<98, 100, 99, 98, 99, 97, 100, 97, 100, 99, 100, 99, 100, 99, 99, 98,
      97, 97, 99, 99, 97>>,
    <<97, 97, 98, 97, 97, 98, 98, 97, 98, 98, 98, 97, 98, 98, 98, 98, 97,
      98, 97, 98, 98, 98, 98, 98, 97, 97, 97, 98>> }

\* comp_len_max and decomp_len, the sizes of the harnesses' arrays.
CompLenMax == 20000
DecompLen == 20000

\* The call the compress and round-trip harnesses make on Data = x:
\* lzav_compress_default( Data, comp_buf, Size, comp_len_max ).
GoodCall(x) ==
  [x |-> x,
   args |-> [src |-> 1, dst |-> 2, srcl |-> Len(x), dstl |-> CompLenMax,
             ext_buf |-> Null, ext_bufl |-> 0]]

\* The harnesses make the call if lzav_compress_bound( Size ) is within
\* comp_len_max.
HarnessCalls(xs) ==
  {GoodCall(x) : x \in {z \in xs : lzav_compress_bound(Len(z)) <= CompLenMax}}

\* A call of lzav_compress with a destination of the size its description
\* asks for at least: dstl = lzav_compress_bound( srcl ).
AtBoundCall(x) ==
  [x |-> x,
   args |-> [src |-> 1, dst |-> 2, srcl |-> Len(x),
             dstl |-> lzav_compress_bound(Len(x)), ext_buf |-> Null,
             ext_bufl |-> 0]]

\* Calls with other arguments: a larger or too small dstl, srcl <= 0, null
\* and aliased pointers, and an external buffer for the hash table.
OtherCalls(x) ==
  LET g == AtBoundCall(x).args
  IN  {[x |-> x, args |-> a] :
         a \in {[g EXCEPT !.dstl = @ + 1], [g EXCEPT !.dstl = @ - 1],
                [g EXCEPT !.dstl = 0], [g EXCEPT !.srcl = 0],
                [g EXCEPT !.srcl = -1], [g EXCEPT !.src = Null],
                [g EXCEPT !.dst = Null], [g EXCEPT !.dst = 1],
                [g EXCEPT !.ext_buf = 4, !.ext_bufl = HtSize(Len(x))],
                [g EXCEPT !.ext_buf = 4, !.ext_bufl = HtSize(Len(x)) - 1],
                [g EXCEPT !.ext_bufl = HtSize(Len(x))]}}

\* The sources lzav_compress is also called on with dstl at the bound.
BoundSources ==
  BigSources \cup BucketSources
  \cup {Gen(3, 3, 0, -1), Gen(26, 8, 1, -1), Gen(HeapLen, 1, 0, -1)}
  \cup {x \in Sources : Len(x) = MaxLen}

CompressCalls ==
  HarnessCalls(Sources \cup BigSources \cup BucketSources)
  \cup {AtBoundCall(x) : x \in BoundSources}
  \cup UNION {OtherCalls(x) : x \in {Gen(3, 3, 0, -1), Gen(26, 8, 1, -1),
                                    Gen(HeapLen, 1, 0, -1)}}

DecIdle ==
  /\ dargs = [src |-> Null, dst |-> Null, srcl |-> 0, dstl |-> 0]
  /\ y = <<>>
  /\ out = <<>>
  /\ dec = [ip |-> 0, op |-> 0, bh |-> 0, cv |-> 0, csh |-> 0, mref1 |-> 0,
            avx |-> FALSE]
  /\ dacc = [s |-> NoAcc, d |-> NoAcc]
  /\ dret = 0

EncIdle ==
  [ip |-> 0, ipa |-> 0, mavg |-> 0, rndb |-> 0, ht |-> <<>>, mem |-> "none",
   bound |-> 0]

InitCall(c) ==
  /\ pc = "c_call"
  /\ srcbuf = c.x
  /\ cargs = c.args
  /\ enc = EncIdle
  /\ w = [buf |-> <<>>, op |-> 0, cbp |-> NullPtr, wr |-> NoAcc, rd |-> NoAcc]
  /\ cret = 0
  /\ calls = <<>>
  /\ DecIdle

Init == \E c \in CompressCalls : InitCall(c)

\* The round-trip harness hands the cret bytes at comp_buf to
\* lzav_decompress with decomp_buf, an array of decomp_len bytes it has not
\* initialised.
PassStream ==
  /\ pc = "c_ret"
  /\ cret >= 0
  /\ y' = Bytes(w.buf, 0, cret)
  /\ dargs' = [src |-> cargs.dst, dst |-> 3, srcl |-> cret, dstl |-> DecompLen]
  /\ out' = <<>>
  /\ pc' = "d_call"
  /\ UNCHANGED <<dec, dacc, dret, cvars, calls>>

\* The cuts t of the stream and the excess e of dstl over the source's
\* length DecompressStream tries.
StreamCalls == {<<0, 0>>, <<0, 1>>, <<0, Slack>>, <<1, 0>>}

\* A caller hands the compressed bytes to lzav_decompress, whole or cut by
\* t bytes, with a destination of e bytes more than the source had.
DecompressStream ==
  /\ pc = "c_ret"
  /\ \E p \in StreamCalls :
       LET t == p[1]
           e == p[2]
       IN  /\ cret - t >= 0
           /\ y' = Bytes(w.buf, 0, cret - t)
           /\ dargs' = [src |-> cargs.dst, dst |-> 3, srcl |-> cret - t,
                        dstl |-> Max(cargs.srcl, 0) + e]
           /\ out' = <<>>
  /\ pc' = "d_call"
  /\ UNCHANGED <<dec, dacc, dret, cvars, calls>>

Next ==
  \/ CompressCall
  \/ CompMiss
  \/ CompNear
  \/ CompMatch
  \/ CompressFinish
  \/ PassStream
  \/ DecompressStream
  \/ DecompressCall
  \/ DecLiteral
  \/ DecReference
  \/ DecFinish

Spec == Init /\ [][Next]_vars

\* ------------------------------------------- the decompressor on its own

\* A stream of every block kind: a literal with a carry, short references
\* of types 1-3, long references of types 1-3, a long literal, the final
\* literal. It decompresses to 163 bytes.
StreamA ==
  <<22, 72, 97, 98, 99, 100, 101, 102, 103, 104, 81, 0, 162, 3, 0,
    243, 20, 0, 0, 80, 0, 0, 0, 0>>
  \o [k \in 1..16 |-> 111 + k]
  \o <<96, 1, 0, 50, 48, 30, 0, 0, 0, 5, 49, 50, 51, 52, 53>>

\* A stream with a literal of 76 bytes, a reference and the final literal.
\* It decompresses to 90 bytes.
StreamB ==
  <<22, 0, 60>> \o [k \in 1..76 |-> (k * 7 - 4) % 256]
  \o <<20, 2, 5, 65, 66, 67, 68, 69>>

\* A stream with a type-1 reference of offset 10 and length 12 after a
\* literal of 10 bytes, then a literal of 60 bytes and the final literal.
\* It decompresses to 87 bytes.
StreamC ==
  <<22, 138>> \o [k \in 1..10 |-> 96 + k] \o <<151, 0, 0, 44>>
  \o [k \in 1..60 |-> (k * 11 + 2) % 256] \o <<5, 49, 50, 51, 52, 53>>

\* A stream whose prefix 0x1F gives mref = 15: a literal of 32 bytes, a
\* type 1 reference of offset 32 and low nibble 15 (29 bytes), a literal
\* of 60 bytes and the last literal; 126 bytes decoded.
StreamD ==
  <<31, 0, 16>> \o [k \in 1..32 |-> 64 + k] \o <<31, 2, 0, 44>>
  \o [k \in 1..60 |-> (k * 13 + 5) % 256] \o <<5, 54, 55, 56, 57, 58>>

\* The bytes a stream's byte is replaced by, the destination lengths tried
\* besides the exact one, and how many streams cut at the end are tried.
MutVals == {0, 15, 16, 31, 38, 47, 48, 63, 255}
DstSmall == 40
DstTiny == 10
MaxCut == 12

Mutate(s, i, v) == [s EXCEPT ![i] = v]

\* A call of lzav_decompress on the stream s with a destination of dstl
\* bytes.
DecCall(s, dstl) ==
  [y |-> s, args |-> [src |-> 1, dst |-> 2, srcl |-> Len(s), dstl |-> dstl]]

\* Calls with other arguments: null and aliased pointers, srcl and dstl
\* that are zero or negative.
OtherDecCalls(s, dstl) ==
  LET g == DecCall(s, dstl).args
  IN  {[y |-> s, args |-> a] :
         a \in {[g EXCEPT !.src = Null], [g EXCEPT !.dst = Null],
                [g EXCEPT !.dst = 1], [g EXCEPT !.dstl = 0],
                [g EXCEPT !.dstl = -1], [g EXCEPT !.srcl = -1],
                [g EXCEPT !.srcl = 0], [g EXCEPT !.srcl = 0, !.dstl = 0],
                [g EXCEPT !.srcl = 0, !.dstl = 0, !.src = Null, !.dst = Null],
                [g EXCEPT !.srcl = 0, !.src = Null],
                [g EXCEPT !.srcl = -1, !.dstl = 0]}}

StreamsOf(s) ==
  {Mutate(s, i, v) : i \in 1..Len(s), v \in MutVals}
  \cup {SubSeq(s, 1, Len(s) - c) : c \in 0..MaxCut}

\* The call the decompress harness makes on Data = s:
\* lzav_decompress( Data, decomp_buf, Size, comp_len ).
HarnessDecCall(s) == DecCall(s, DecompLen)

HarnessDecCalls ==
  {HarnessDecCall(s) : s \in StreamsOf(StreamA) \cup StreamsOf(StreamB)
                             \cup StreamsOf(StreamC) \cup StreamsOf(StreamD)
                             \cup {<<>>}}

\* Calls of lzav_decompress with the length the stream decodes to, a
\* larger one and smaller ones as dstl.
DecCalls ==
  {DecCall(s, n) : s \in StreamsOf(StreamA),
                   n \in {163, 163 + Slack, DstSmall, DstTiny}}
  \cup {DecCall(s, n) : s \in StreamsOf(StreamB),
                        n \in {90, 90 + Slack, DstSmall}}
  \cup {DecCall(s, n) : s \in StreamsOf(StreamC),
                        n \in {87, 87 + Slack, DstSmall}}
  \cup {DecCall(s, n) : s \in StreamsOf(StreamD),
                        n \in {126, 126 + Slack, DstSmall}}
  \cup UNION {OtherDecCalls(s, 163) :
                s \in {StreamA, Mutate(StreamA, 1, 38), <<>>}}

InitDecCall(c) ==
  /\ pc = "d_call"
  /\ y = c.y
  /\ dargs = c.args
  /\ out = <<>>
  /\ dec = [ip |-> 0, op |-> 0, bh |-> 0, cv |-> 0, csh |-> 0, mref1 |-> 0,
            avx |-> FALSE]
  /\ dacc = [s |-> NoAcc, d |-> NoAcc]
  /\ dret = 0
  /\ srcbuf = <<>>
  /\ cargs = [src |-> Null, dst |-> Null, srcl |-> 0, dstl |-> 0,
              ext_buf |-> Null, ext_bufl |-> 0]
  /\ enc = EncIdle
  /\ w = [buf |-> <<>>, op |-> 0, cbp |-> NullPtr, wr |-> NoAcc, rd |-> NoAcc]
  /\ cret = 0
  /\ calls = <<>>

InitDec == \E c \in HarnessDecCalls \cup DecCalls : InitDecCall(c)

NextDec ==
  \/ DecompressCall
  \/ DecLiteral
  \/ DecReference
  \/ DecFinish

SpecDec == InitDec /\ [][NextDec]_vars

\* ------------------------------------------------- runs to completion

\* Calls of lzav_compress, each followed by lzav_decompress on its stream,
\* and calls of lzav_decompress on streams of its own, among them a source
\* without repetitions long enough for the misses to bring mavg under
\* 100 << 15, where the skip grows. The loops are the program's own: a
\* step that is enabled is taken.
SkipLen == 13405
Noise(n) == [k \in 1..n |-> (((k * k * 7 + k * 3) % 65537) \div 16) % 256]

LiveCalls ==
  HarnessCalls(BigSources \cup BucketSources \cup {Noise(SkipLen)}
               \cup {x \in Sources : Len(x) = MaxLen})

LiveDecCalls ==
  {HarnessDecCall(s) : s \in StreamsOf(StreamA) \cup StreamsOf(StreamD)}
  \cup {DecCall(s, 163) : s \in StreamsOf(StreamA)}
  \cup {DecCall(s, 126) : s \in StreamsOf(StreamD)}

InitLive ==
  \/ \E c \in LiveCalls : InitCall(c)
  \/ \E c \in LiveDecCalls : InitDecCall(c)

SpecLive == InitLive /\ [][Next]_vars /\ WF_vars(Next)

\* ------------------------------------------- lzav_compress_bound alone

\* The largest int.
IntMax == 2147483647

\* The arguments tried: those around 0, multiples of BoundStride, and those
\* just below the largest int and just around a third and two thirds of
\* 2^32, where srcl * 3 wraps.
MaxBoundArg == 40
BoundStride == 10000000
BoundSteps == 200

BoundArgs ==
  (-MaxBoundArg)..MaxBoundArg
  \cup {-IntMax - 1, -IntMax}
  \cup {k * BoundStride : k \in 1..BoundSteps}
  \cup {IntMax - k : k \in 0..MaxBoundArg}
  \cup {IntMax \div 3 + k : k \in 0..MaxBoundArg}
  \cup {(IntMax \div 3) * 2 + k : k \in 0..MaxBoundArg}
  \cup {LZAV_LIT_LEN * k + j : k \in 1..3, j \in {-1, 0, 1}}

InitBound ==
  /\ pc = "b_call"
  /\ \E s \in BoundArgs :
       cargs = [src |-> Null, dst |-> Null, srcl |-> s, dstl |-> 0,
                ext_buf |-> Null, ext_bufl |-> 0]
  /\ srcbuf = <<>>
  /\ enc = EncIdle
  /\ w = [buf |-> <<>>, op |-> 0, cbp |-> NullPtr, wr |-> NoAcc, rd |-> NoAcc]
  /\ cret = 0
  /\ calls = <<>>
  /\ DecIdle

\* A call of lzav_compress_bound( srcl ).
BoundCall ==
  /\ pc = "b_call"
  /\ cret' \in BoundResults(cargs.srcl)
  /\ pc' = "b_ret"
  /\ UNCHANGED <<cargs, srcbuf, enc, w, dvars, calls>>

NextBound == BoundCall

SpecBound == InitBound /\ [][NextBound]_vars

\* ------------------------------------ lzav_compress on the longest sources

\* What lzav_write_fin_1( op, lc, ipa ) adds to op when lc < LZAV_LIT_LEN +
\* LZAV_LIT_FIN + 1, so that no iteration of its loop writes LZAV_LIT_LEN
\* literals.
RECURSIVE FinRest(_)
FinRest(lc) ==
  IF lc > 15
  THEN LET wc == lc - LZAV_LIT_FIN
       IN  (IF wc < 1 + 15 THEN 1 ELSE IF wc < 1 + 15 + 255 THEN 2 ELSE 3)
           + wc + FinRest(lc - wc)
  ELSE 1 + lc

\* What lzav_write_fin_1( op, lc, ipa ) adds to op: its loop writes 3 +
\* LZAV_LIT_LEN bytes for as long as lc - LZAV_LIT_FIN >= LZAV_LIT_LEN.
FinSize(lc) ==
  LET full == IF lc - LZAV_LIT_FIN < LZAV_LIT_LEN THEN 0
              ELSE (lc - LZAV_LIT_FIN - LZAV_LIT_LEN) \div LZAV_LIT_LEN + 1
  IN  full * (3 + LZAV_LIT_LEN) + FinRest(lc - full * LZAV_LIT_LEN)

\* The source lengths tried: multiples of BoundStride and those around a
\* third of 2^32, where srcl * 3 starts to overflow an int.
HugeLens ==
  {k * BoundStride : k \in 1..BoundSteps}
  \cup {IntMax \div 3 + k : k \in (-MaxBoundArg)..MaxBoundArg}

\* A call with dstl as lzav_compress_bound( srcl ) returns it, on a source
\* of which the bytes are not kept: one in which no lookup of the main loop
\* finds a tuple at an offset it accepts.
InitHuge ==
  /\ pc = "c_call"
  /\ \E n \in HugeLens : \E b \in BoundResults(n) :
       cargs = [src |-> 1, dst |-> 2, srcl |-> n, dstl |-> b,
                ext_buf |-> Null, ext_bufl |-> 0]
  /\ srcbuf = <<>>
  /\ enc = EncIdle
  /\ w = [buf |-> <<>>, op |-> 0, cbp |-> NullPtr, wr |-> NoAcc, rd |-> NoAcc]
  /\ cret = 0
  /\ calls = <<>>
  /\ DecIdle

\* lzav_compress on such a source: the check of lines 613-614 with the
\* value b the build computes for the bound, the hash table on the heap,
\* no iteration of the main loop writing a block (the first lookup finds
\* the tuple the table was filled with, at offset 0, and refuses it; the
\* others find none), and lzav_write_fin_1 called
\* with op = dst + 1, lc = srcl and ipa = src.
CompressHuge ==
  /\ pc = "c_call"
  /\ pc' = "c_ret"
  /\ \E b \in BoundResults(cargs.srcl) :
       IF Rejects(cargs, b)
       THEN cret' = 0 /\ enc' = [enc EXCEPT !.bound = b] /\ UNCHANGED w
       ELSE \/ /\ cret' = 0
               /\ enc' = [enc EXCEPT !.mem = "failed", !.bound = b]
               /\ UNCHANGED w
            \/ /\ cret' = 1 + FinSize(cargs.srcl)
               /\ enc' = [enc EXCEPT !.mem = "heap", !.bound = b]
               /\ w' = [w EXCEPT !.op = 1 + FinSize(cargs.srcl),
                                 !.wr = <<0, FinSize(cargs.srcl)>>,
                                 !.rd = <<0, cargs.srcl - 1>>]
  /\ UNCHANGED <<cargs, srcbuf, dvars, calls>>

NextHuge == CompressHuge

SpecHuge == InitHuge /\ [][NextHuge]_vars

\* ------------------------------------------------- block writers alone

\* Sequences of calls of lzav_write_blk_1 with mref = LZAV_REF_MIN, then
\* lzav_write_fin_1, on a stream that starts with the prefix byte; the
\* stream is then given to lzav_decompress with the length of what the
\* calls encoded as dstl. The lengths are the least one, the first that
\* takes a length byte, and the largest; the offsets are the least one and
\* those around the limits of 10 and 18 bits, before and after the shift
\* by 2. On a source of NearLen bytes there are at most MaxCalls calls. On
\* the longer sources the first calls pass all of the source as literals,
\* so that the offsets of more than 10 and of more than 18 bits of the
\* calls that follow reach no further than the start of the decoded bytes:
\* one call with MidLit literals and one more call, or FarCalls calls with
\* FarLit literals each, a call whose reference block is of type 3 and one
\* more call.
MaxCalls == 2
NearLen == 32
MidLit == 4100
FarLit == 8192
FarCalls == 32
CarryLits == {0, 3, 17}
CarryLens == {LZAV_REF_MIN, LZAV_REF_MIN + 15, LZAV_REF_LEN}
CarryOffsets == {8, 1023, 4097, 262145, LZAV_WIN_LEN - 1}
CarrySrc(n) == [k \in 1..n |-> (k + k \div 251) % 256]
CarrySrcLens == {NearLen, MidLit, FarLit}

\* The decoded length of the stream of the calls cs.
RECURSIVE CallsLen(_)
CallsLen(cs) ==
  IF cs = <<>> THEN LZAV_LIT_FIN
  ELSE Head(cs).lc + Head(cs).rc + CallsLen(Tail(cs))

\* The calls with the literals lits.
CarryCalls(lits) ==
  {[lc |-> lc, rc |-> rc, d |-> d] :
     lc \in lits, rc \in CarryLens, d \in CarryOffsets}

\* The calls made after the calls cs on a source of n bytes.
CallsAfter(cs, n) ==
  IF n = NearLen
  THEN IF Len(cs) < MaxCalls THEN CarryCalls(CarryLits) ELSE {}
  ELSE IF n = MidLit
  THEN IF cs = <<>> THEN CarryCalls({n})
       ELSE IF Len(cs) = 1 THEN CarryCalls(CarryLits)
       ELSE {}
  ELSE IF Len(cs) < FarCalls
  THEN {[lc |-> n, rc |-> LZAV_REF_MIN, d |-> 8]}
  ELSE IF Len(cs) = FarCalls
  THEN {[lc |-> 0, rc |-> rc, d |-> 262145] :
          rc \in {LZAV_REF_MIN, LZAV_REF_MIN + 15}}
  ELSE IF Len(cs) = FarCalls + 1
  THEN {[lc |-> lc, rc |-> LZAV_REF_MIN, d |-> 1023] : lc \in {0, 3}}
  ELSE {}

\* lzav_write_fin_1 may follow any call on the shorter sources, and follows
\* the last call on the longest.
FinAfter(cs, n) == cs # <<>> /\ (n = FarLit => CallsAfter(cs, n) = {})

InitCarry ==
  /\ pc = "w_blk"
  /\ \E n \in CarrySrcLens :
       /\ srcbuf = CarrySrc(n)
       /\ cargs = [src |-> 1, dst |-> 2, srcl |-> n,
                   dstl |-> lzav_compress_bound(n) * (MaxCalls + 2),
                   ext_buf |-> Null, ext_bufl |-> 0]
  /\ enc = EncIdle
  /\ w = [buf |-> <<LZAV_FMT_CUR * 16 + LZAV_REF_MIN>>,
          op |-> 1, cbp |-> NullPtr, wr |-> <<0, 0>>, rd |-> NoAcc]
  /\ cret = 0
  /\ calls = <<>>
  /\ DecIdle

\* A call op = lzav_write_blk_1( op, lc, rc, d, ipa, &cbp, LZAV_REF_MIN ).
WriteBlk ==
  /\ pc = "w_blk"
  /\ \E c \in CallsAfter(calls, cargs.srcl) :
       /\ c.rc <= c.d
       /\ w' = lzav_write_blk_1(w, c.lc, c.rc, c.d, srcbuf, 0, LZAV_REF_MIN)
       /\ calls' = Append(calls, c)
  /\ UNCHANGED <<pc, cargs, srcbuf, enc, cret, dvars>>

\* lzav_write_fin_1 with the last LZAV_LIT_FIN literals; the stream then
\* goes to lzav_decompress.
WriteFin ==
  /\ pc = "w_blk"
  /\ FinAfter(calls, cargs.srcl)
  /\ LET w1 == lzav_write_fin_1(w, LZAV_LIT_FIN, srcbuf, 0)
     IN  /\ w' = w1
         /\ cret' = w1.op
         /\ y' = Bytes(w1.buf, 0, w1.op)
         /\ dargs' = [src |-> 2, dst |-> 3, srcl |-> w1.op,
                      dstl |-> CallsLen(calls)]
  /\ out' = <<>>
  /\ pc' = "d_call"
  /\ UNCHANGED <<cargs, srcbuf, enc, dec, dacc, dret, calls>>

NextCarry ==
  \/ WriteBlk
  \/ WriteFin
  \/ DecompressCall
  \/ DecLiteral
  \/ DecReference
  \/ DecFinish

SpecCarry == InitCarry /\ [][NextCarry]_vars

\* --------------------------------------------------------- properties

\* The whole stream of an accepted compression has been decompressed.
Decoded == pc = "d_ret" /\ cret > 0 /\ dargs.srcl = cret

\* C1: round trip. When lzav_compress accepted x (srcl > 0, dstl at least
\* the bound) and returned c, lzav_decompress on the c bytes with dstl = srcl
\* returns srcl and leaves out[0..srcl) equal to x.
C1_RoundTrip ==
  (Decoded /\ dargs.dstl = cargs.srcl)
    => (dret = cargs.srcl /\ DBytes(out, 0, cargs.srcl) = srcbuf)

\* A source that compressed to fewer bytes than it has (so with reference
\* blocks) came back whole.
C1_Witness ==
  /\ Decoded /\ dargs.dstl = cargs.srcl
  /\ cret < cargs.srcl
  /\ dret = cargs.srcl /\ out = srcbuf

\* C2: oversized destination. Decompressing a compressed x of n bytes with
\* any dstl >= n leaves dst[0..n) equal to x, and returns LZAV_E_DSTLEN
\* whenever dstl > n.
C2_Oversized ==
  (Decoded /\ dargs.dstl >= cargs.srcl)
    => /\ DBytes(out, 0, cargs.srcl) = srcbuf
       /\ (dargs.dstl > cargs.srcl => dret = LZAV_E_DSTLEN)

\* A stream with reference blocks was decompressed into a destination
\* Slack bytes longer than x, and a wide copy wrote past dst + n.
C2_Witness ==
  /\ Decoded /\ dargs.dstl = cargs.srcl + Slack
  /\ cret < cargs.srcl
  /\ dacc.d[2] >= cargs.srcl
  /\ dret = LZAV_E_DSTLEN /\ DBytes(out, 0, cargs.srcl) = srcbuf

\* lzav_compress took the call: the arguments pass the checks of lines
\* 613-614, dstl against the value lzav_compress_bound( srcl ) had in the
\* call, and the hash table's memory was obtained.
Taken ==
  /\ cargs.srcl > 0 /\ cargs.src # Null /\ cargs.dst # Null
  /\ cargs.src # cargs.dst
  /\ cargs.dstl >= enc.bound
  /\ enc.mem # "failed"

\* C3: bound safety. For every source lzav_compress accepts, the returned
\* length c satisfies 0 < c <= lzav_compress_bound( srcl ).
C3_BoundSafety ==
  (pc = "c_ret" /\ Taken)
    => (0 < cret /\ cret <= enc.bound)

\* C4: decoder memory safety. Whatever the bytes at src are, and whatever
\* dstl is, every source index lzav_decompress reads is in [0, srcl) and
\* every destination index it reads or writes is in [0, dstl).
C4_DecoderMemSafe ==
  AccIn(dacc.s, dargs.srcl) /\ AccIn(dacc.d, dargs.dstl)

\* A malformed stream was refused after wide copies had been made.
C4_Witness ==
  /\ pc = "d_ret" /\ dret = LZAV_E_REFOOB
  /\ dacc.d[1] = 0 /\ dacc.d[2] >= 63
  /\ dacc.s[2] > LZAV_LIT_FIN

\* C5: decoder result contract. lzav_decompress returns one of the codes -6..-1,
\* or dstl with the output cursor at dst + dstl; so no value >= 0 other
\* than dstl.
C5_ResultContract ==
  pc = "d_ret"
    => \/ dret \in LZAV_E_UNKFMT..LZAV_E_PARAMS
       \/ (dret = dargs.dstl /\ dec.op = dargs.dstl)

\* A stream was decompressed in full.
C5_Witness ==
  pc = "d_ret" /\ dret = dargs.dstl /\ dret > 0 /\ dec.op = dargs.dstl

C7_ShortShape ==
  (pc = "c_ret" /\ Taken /\ cargs.srcl <= 5)
    => /\ cret = 7
       /\ w.buf
            = <<22, cargs.srcl>> \o srcbuf \o [k \in 1..(5 - cargs.srcl) |-> 0]

\* The 1-byte source 0x41 gave 16 01 41 00 00 00 00.
C7_Witness ==
  /\ pc = "c_ret" /\ srcbuf = <<65>>
  /\ cret = 7 /\ w.buf = <<22, 1, 65, 0, 0, 0, 0>>

\* The arguments lzav_decompress refuses with LZAV_E_PARAMS.
RefusedArgs ==
  \/ dargs.srcl < 0
  \/ dargs.srcl = 0 /\ dargs.dstl # 0
  \/ /\ dargs.srcl > 0
     /\ \/ dargs.src = Null \/ dargs.dst = Null
        \/ dargs.src = dargs.dst \/ dargs.dstl <= 0

\* C8: decoder parameter validation. srcl < 0 gives LZAV_E_PARAMS; srcl == 0
\* gives 0 if dstl == 0 and LZAV_E_PARAMS otherwise, whatever the pointers
\* are; srcl > 0 with a null pointer, src == dst or dstl <= 0 gives
\* LZAV_E_PARAMS; in all these cases neither buffer is touched.
C8_ParamValidation ==
  pc = "d_ret"
    => /\ RefusedArgs => dret = LZAV_E_PARAMS
       /\ (dargs.srcl = 0 /\ dargs.dstl = 0) => dret = 0
       /\ (RefusedArgs \/ dargs.srcl = 0)
            => /\ out = <<>>
               /\ dacc = [s |-> NoAcc, d |-> NoAcc]

\* An empty source with dstl == 0 and null pointers returned 0.
C8_Witness ==
  /\ pc = "d_ret" /\ Len(y) > 0
  /\ dargs.srcl = 0 /\ dargs.dstl = 0
  /\ dargs.src = Null /\ dargs.dst = Null
  /\ dret = 0

\* The offset and the length of the reference block whose header dec.bh is
\* at dec.ip.
BlockOffset ==
  RefOffset(RefFields(y, dec.ip, dec.bh).x, dec.csh, dec.cv)
BlockLength ==
  IF (dec.bh % 16) = 0
  THEN 16 + dec.mref1 + RefFields(y, dec.ip, dec.bh).ext
  ELSE (dec.bh % 16) + dec.mref1

\* The loop is at a reference block whose offset reaches before dst and
\* whose length exceeds what is left of the destination.
BothOob ==
  /\ dec.ip < dargs.srcl - 5
  /\ (dec.bh \div 16) % 4 # 0
  /\ BlockOffset > dec.op
  /\ dec.op + BlockLength > dargs.dstl

\* C9: check-order priority. Refused arguments give LZAV_E_PARAMS whatever
\* the stream is; with valid arguments a prefix byte whose high nibble is
\* not 1 gives LZAV_E_UNKFMT whatever follows; and a reference block that
\* is both out of the destination's start and too long for its end gives
\* LZAV_E_REFOOB.
C9_CheckOrder ==
  /\ [](pc = "d_ret"
         => /\ RefusedArgs => dret = LZAV_E_PARAMS
            /\ (~RefusedArgs /\ dargs.srcl > 0 /\ At(y, 0) \div 16 # 1)
                 => dret = LZAV_E_UNKFMT)
  /\ [][(pc = "d_loop" /\ BothOob)
          => (pc' = "d_ret" /\ dret' = LZAV_E_REFOOB)]_vars

\* A block with both defects was refused with LZAV_E_REFOOB.
C9_Witness ==
  /\ pc = "d_ret" /\ dret = LZAV_E_REFOOB
  /\ BothOob

\* C10: truncation is detected. The stream of an accepted compression with
\* its last byte removed, decompressed with dstl = n, gives LZAV_E_SRCOOB,
\* LZAV_E_DSTLEN or LZAV_E_REFOOB.
C10_Truncation ==
  (pc = "d_ret" /\ cret > 0 /\ dargs.srcl = cret - 1
     /\ dargs.dstl = cargs.srcl)
    => dret \in {LZAV_E_SRCOOB, LZAV_E_DSTLEN, LZAV_E_REFOOB}

\* A stream with reference blocks, cut by one byte, was refused when its
\* final literal block was found to run past the source.
C10_Witness ==
  /\ pc = "d_ret" /\ cret > 0 /\ dargs.srcl = cret - 1
  /\ dargs.dstl = cargs.srcl
  /\ cret < cargs.srcl
  /\ dret = LZAV_E_SRCOOB

\* C11: lzav_compress_bound. For every int srcl the result is at least 8:
\* it is 8 for srcl <= 0, and srcl + srcl * 3 / 526 + 8 for srcl > 0 (the
\* value is stated here where srcl * 3 is an int; beyond that the product
\* overflows, which C leaves undefined).
C11_BoundValue ==
  pc = "b_ret"
    => /\ cret >= 8
       /\ cargs.srcl <= 0 => cret = 8
       /\ (cargs.srcl > 0 /\ cargs.srcl <= IntMax \div 3)
            => cret = cargs.srcl + (cargs.srcl * 3) \div 526 + 8

\* The stream lzav_compress returned ends with a literal block whose
\* header b is 1 byte with a length field of 5..15, followed by that many
\* bytes, the last ones of the source.
TrailsWith(b) ==
  /\ b >= 1
  /\ (At(w.buf, b) \div 16) % 4 = 0
  /\ (At(w.buf, b) % 16) \in LZAV_LIT_FIN..15
  /\ b + 1 + (At(w.buf, b) % 16) = cret
  /\ Bytes(w.buf, b + 1, At(w.buf, b) % 16)
       = Bytes(srcbuf, cargs.srcl - (At(w.buf, b) % 16), At(w.buf, b) % 16)

\* C12 as stated: every stream lzav_compress returns ends with a literal
\* block of 5..15 bytes with a 1-byte header, holding the last bytes of
\* the source.
C12_TrailingAny ==
  (pc = "c_ret" /\ Taken) => TrailsWith(LastBlock(w.buf, 1, cret))

\* C12, amended: the same for every source of at least 5 bytes (a shorter
\* source gives the padded short stream, whose last block is shorter than
\* the 5 bytes that follow its header).
C12_TrailingLiteral ==
  (pc = "c_ret" /\ Taken /\ cargs.srcl >= LZAV_LIT_FIN)
    => TrailsWith(LastBlock(w.buf, 1, cret))

\* A long incompressible source: lzav_write_fin_1 split its literals and
\* the last block holds 5..15 of them.
C12_Witness ==
  /\ pc = "c_ret" /\ Taken
  /\ cargs.srcl >= LZAV_LIT_LEN
  /\ LastBlock(w.buf, 1, cret) > LZAV_LIT_LEN
  /\ TrailsWith(LastBlock(w.buf, 1, cret))

\* The byte-wise forward copy o[ op + i ] = o[ op + i - d ] for i = k..cc-1.
RECURSIVE Forward(_, _, _, _, _)
Forward(o, op, d, k, cc) ==
  IF k >= cc THEN o
  ELSE Forward([o EXCEPT ![op + k + 1] = o[op + k - d + 1]], op, d, k + 1, cc)

\* This step decodes a reference block and goes on with the loop.
RefAccepted ==
  /\ pc = "d_loop" /\ pc' = "d_loop"
  /\ dec.ip < dargs.srcl - 5
  /\ (dec.bh \div 16) % 4 # 0

\* The bytes the step wrote at op are those of the forward copy.
CopiedForward ==
  DBytes(out', dec.op, BlockLength)
    = Bytes(Forward(DBytes(out, 0, dec.op + BlockLength), dec.op,
                    BlockOffset, 0, BlockLength),
            dec.op, BlockLength)

\* C13: overlap-safe reference copy. For every reference block the decoder
\* accepts, also with d < cc, the cc bytes written at op equal the
\* byte-wise forward copy op[ i ] = op[ i - d ], on the wide path and on
\* the byte-wise path.
C13_OverlapAny == [][RefAccepted => CopiedForward]_vars

\* C14: mref tolerance. With a prefix byte 0x1m, m in 1..15, a reference
\* block of non-zero low nibble n that the decoder accepts is a copy of
\* exactly n + m - 1 bytes from op - d, and a block with n = 0 one of
\* 16 + (m - 1) + extra bytes: op advances by that count and each byte
\* written equals the referenced byte, on the wide path as on the byte-wise
\* one. Stated for references that do not reach their own output
\* (d >= count), where the referenced byte is the one at op - d + i.
C14_MrefTolerance ==
  [][LET m  == At(y, 0) % 16
         n  == dec.bh % 16
         cc == IF n # 0 THEN n + m - 1
               ELSE 16 + (m - 1) + RefFields(y, dec.ip, dec.bh).ext
     IN  (RefAccepted /\ m \in 1..15 /\ BlockOffset >= cc)
           => /\ dec'.op = dec.op + cc
              /\ DBytes(out', dec.op, cc)
                   = DBytes(out, dec.op - BlockOffset, cc)]_vars

\* The loop of lzav_decompress is at a reference block.
AtReference ==
  pc = "d_loop" /\ dec.ip < dargs.srcl - 5 /\ (dec.bh \div 16) % 4 # 0

\* Which of the calls cs, counted from k, wrote the reference block that
\* is to be decoded at dst + op: the one whose literals end there; 0 if
\* there is none.
RECURSIVE CallAt(_, _, _)
CallAt(cs, op, k) ==
  IF cs = <<>> \/ op < 0 THEN 0
  ELSE IF op = Head(cs).lc THEN k
  ELSE CallAt(Tail(cs), op - Head(cs).lc - Head(cs).rc, k + 1)

\* The call of lzav_write_blk_1 that wrote the reference block at dec.ip.
WroteBlock == calls[CallAt(calls, dec.op, 1)]

\* C15: offset-carry law. After any sequence of lzav_write_blk_1 calls
\* (lc, rc, d), 8 <= d < 2^24, rc <= d, rc a length that lzav_compress
\* passes (LZAV_REF_MIN to LZAV_REF_LEN), and lzav_write_fin_1,
\* lzav_decompress finds at each reference block it comes to the offset d
\* and the length rc of the call that wrote it: with the two low bits of d
\* in the literal header (lc > 0), in the header of the type 3 block just
\* before (lc = 0, link set), or not carried (lc = 0, link clear). It
\* returns LZAV_E_REFOOB there if d exceeds the bytes decoded so far, and
\* else copies the rc bytes at op - d; at the end it has decoded what all
\* the calls encoded and returns dstl.
C15_OffsetCarry ==
  /\ [](AtReference
         => /\ CallAt(calls, dec.op, 1) # 0
            /\ BlockOffset = WroteBlock.d
            /\ BlockLength = WroteBlock.rc)
  /\ [][AtReference
         => IF WroteBlock.d > dec.op
            THEN pc' = "d_ret" /\ dret' = LZAV_E_REFOOB
            ELSE /\ pc' = "d_loop"
                 /\ dec'.op = dec.op + WroteBlock.rc
                 /\ DBytes(out', dec.op, WroteBlock.rc)
                      = DBytes(out, dec.op - WroteBlock.d, WroteBlock.rc)]_vars
  /\ [](pc = "d_ret"
         => \/ dret = LZAV_E_REFOOB
            \/ /\ dret = dargs.dstl
               /\ dec.ip = dargs.srcl
               /\ dec.op = CallsLen(calls))

\* lzav_decompress has copied the reference of a call whose offset's low
\* bits are not 0 and were put into the header of the literal block before
\* it, and is at the reference of a second call, which has no literals.
C15_Witness ==
  /\ AtReference /\ Len(calls) = 2
  /\ calls[1].lc = MidLit /\ calls[1].d % 4 = 3
  /\ calls[2].lc = 0
  /\ dec.op = calls[1].lc + calls[1].rc
  /\ SubSeq(out, calls[1].lc + 1, dec.op)
       = SubSeq(out, calls[1].lc - calls[1].d + 1, dec.op - calls[1].d)
  /\ BlockOffset = calls[2].d

\* C16: encoder reference invariant. Each lzav_write_blk_1 call that
\* lzav_compress makes has 8 <= d < LZAV_WIN_LEN and LZAV_REF_MIN <= rc <=
\* min( d, LZAV_REF_LEN ), and with ip the position the reference starts at
\* (moved back by lc < LZAV_REF_MIN when the match was found to start
\* earlier) ip + rc <= srcl - LZAV_LIT_FIN.
C16_EncoderRefs ==
  [][(pc = "c_loop" /\ Len(calls') = Len(calls) + 1)
       => LET c  == calls'[Len(calls')]
              ip == enc'.ip - c.rc
          IN  /\ 8 <= c.d /\ c.d < LZAV_WIN_LEN
              /\ LZAV_REF_MIN <= c.rc
              /\ c.rc <= c.d /\ c.rc <= LZAV_REF_LEN
              /\ \/ ip = enc.ip /\ c.lc = enc.ip - enc.ipa
                 \/ /\ ip = enc.ipa /\ c.lc = 0
                    /\ enc.ip - enc.ipa < LZAV_REF_MIN
              /\ ip + c.rc <= cargs.srcl - LZAV_LIT_FIN]_vars

\* Two or more calls were made, one with the length capped by the offset,
\* the last one with no literals and ending where the last LZAV_LIT_FIN
\* bytes start.
C16_Witness ==
  /\ pc = "c_loop" /\ Len(calls) >= 2
  /\ \E i \in 1..Len(calls) : calls[i].rc = calls[i].d
  /\ calls[Len(calls)].lc = 0
  /\ enc.ip = cargs.srcl - LZAV_LIT_FIN

\* What the call of lzav_write_blk_1 made in this step wrote for its lc
\* literals if runs longer than n are split into chunks of n bytes: each
\* chunk is the bytes 0x00, 0xFF, 0xFF and n source bytes, then comes the
\* block of what is left; and a block of 271..n literals is the header
\* byte (the carry in bits 6-7), 0xFF, lc - 271, and the lc source bytes.
SplitBy(n) ==
  (pc = "c_loop" /\ Len(calls') = Len(calls) + 1)
    => LET c    == calls'[Len(calls')]
           k    == IF c.lc > n THEN (c.lc - 1) \div n ELSE 0
           left == c.lc - k * n
           at   == w.op + k * (n + 3)
       IN  /\ \A i \in 0..(k - 1) :
                /\ Bytes(w'.buf, w.op + i * (n + 3), 3) = <<0, 255, 255>>
                /\ Bytes(w'.buf, w.op + i * (n + 3) + 3, n)
                     = Bytes(srcbuf, enc.ipa + i * n, n)
           /\ left >= 271
                => /\ Bytes(w'.buf, at, 3)
                      = <<(c.d % 4) * 64, 255, left - 271>>
                   /\ Bytes(w'.buf, at + 3, left)
                      = Bytes(srcbuf, enc.ipa + k * n, left)

\* C17 as stated: literal-run splitting. A run longer than 525 bytes is
\* split into 525-byte chunks, each the bytes 0x00, 0xFF, 0xFF and the
\* chunk; one literal block with a 3-byte header carries 271..525 bytes.
C17_Split525 == [][SplitBy(525)]_vars

\* C17, amended: the same with LZAV_LIT_LEN = 526 for 525.
C17_LitSplit == [][SplitBy(LZAV_LIT_LEN)]_vars

\* Runs of 1100, of 527 and of 526 literals were written: two chunks and
\* 48 bytes, one chunk and 1 byte, and one block of 526 bytes.
C17_Witness ==
  /\ pc = "c_ret" /\ calls # <<>>
  /\ calls[1].lc \in {1100, LZAV_LIT_LEN + 1, LZAV_LIT_LEN}
  /\ Bytes(w.buf, 1, 3)
       = <<IF calls[1].lc > LZAV_LIT_LEN THEN 0 ELSE (calls[1].d % 4) * 64,
           255, 255>>
  /\ Bytes(w.buf, 4, LZAV_LIT_LEN) = Bytes(srcbuf, 0, LZAV_LIT_LEN)

\* lzav_compress has chosen the memory of its hash table: the arguments
\* were accepted and srcl > LZAV_LIT_FIN.
TablePlaced ==
  /\ pc \in {"c_loop", "c_ret"}
  /\ cargs.srcl > LZAV_LIT_FIN
  /\ enc.mem # "none"

\* The caller's ext_buf is provided and holds the table.
ExtFits == cargs.ext_buf # Null /\ cargs.ext_bufl >= HtCap(cargs.srcl) * 16

\* The table fits the 16 KiB of stack_buf.
StackFits == HtCap(cargs.srcl) * 16 <= 16 * 1024

\* C18 as stated: hash-table memory selection. For srcl > 5 the table is
\* in ext_buf if one is provided and ext_bufl is at least the table size,
\* else on the stack if it fits 16 KiB, else on the heap (the allocation
\* may fail); a smaller ext_buf falls through to the heap.
C18_ExtFirst ==
  TablePlaced
    => IF ExtFits THEN enc.mem = "ext"
       ELSE IF StackFits THEN enc.mem = "stack"
       ELSE enc.mem \in {"heap", "failed"}

\* C18, amended: the table is on the stack if it fits 16 KiB, else in
\* ext_buf if one is provided and ext_bufl is at least the table size, else
\* on the heap, and only a failed allocation makes lzav_compress return 0.
C18_StackFirst ==
  /\ TablePlaced
       => IF StackFits THEN enc.mem = "stack"
          ELSE IF ExtFits THEN enc.mem = "ext"
          ELSE enc.mem \in {"heap", "failed"}
  /\ (TablePlaced /\ pc = "c_ret") => (cret = 0 <=> enc.mem = "failed")

\* A source whose table fits the stack was compressed with an ext_buf
\* that would have held the table.
C18_Witness ==
  /\ pc = "c_ret" /\ cret > 0
  /\ cargs.srcl > LZAV_LIT_FIN
  /\ ExtFits /\ StackFits
  /\ enc.mem = "stack"

\* The main loop of lzav_compress is at a lookup; the words at ip, their
\* bucket before and after the step.
AtLookup == pc = "c_loop" /\ enc.ip < cargs.srcl - LZAV_LIT_FIN - LZAV_REF_MIN + 1
LookupKey == Bytes(srcbuf, enc.ip, 4)
LookupCheck == Bytes(srcbuf, enc.ip + 4, 2)
LookupBucket == Bucket(HashVal(LookupKey, LookupCheck), HtSize(cargs.srcl))
BucketBefore == HtGet(enc.ht, LookupBucket, srcbuf, cargs.srcl)
BucketAfter == HtGet(enc'.ht, LookupBucket, srcbuf, cargs.srcl)

\* The iteration takes the branch "if( wp == 0 )": the search of the
\* bucket left wp at 0.
MissTaken ==
  AtLookup /\ ~Lookup(srcbuf, cargs.srcl, enc.ht, enc.ip).wp

\* The first (second) tuple's key is iw1, and it matches iw2 as well.
FirstKey == BucketBefore[1] = LookupKey
SecondKey == BucketBefore[3] = LookupKey
FirstFull == FirstKey /\ Bytes(srcbuf, BucketBefore[2] + 4, 2) = LookupCheck
SecondFull == SecondKey /\ Bytes(srcbuf, BucketBefore[4] + 4, 2) = LookupCheck

\* The bucket with its first (second) tuple replaced by (iw1, ipo).
FirstReplaced ==
  BucketAfter = <<LookupKey, enc.ip, BucketBefore[3], BucketBefore[4]>>
SecondReplaced ==
  BucketAfter = <<BucketBefore[1], BucketBefore[2], LookupKey, enc.ip>>

\* C19 as stated: two-way bucket miss policy. On a miss the second tuple
\* is replaced by (iw1, ipo) if the first tuple's key did not match iw1,
\* and the first tuple if its key matched iw1 but iw2 differed; the second
\* tuple is tried only when the first tuple fails on iw1, so a first tuple
\* that matches iw1 but not iw2 makes the lookup a miss.
C19_ByFirstKey ==
  [][/\ MissTaken => IF FirstKey THEN FirstReplaced ELSE SecondReplaced
     /\ (AtLookup /\ FirstKey /\ ~FirstFull) => MissTaken]_vars

\* C19, amended: the second tuple is tried whenever the first tuple does
\* not match both iw1 and iw2; the lookup is a miss when neither matches
\* both, and then the second tuple is replaced by (iw1, ipo) if its key is
\* not iw1, and the first tuple if the second tuple's key is iw1.
C19_BySecondKey ==
  [][/\ MissTaken => IF SecondKey THEN FirstReplaced ELSE SecondReplaced
     /\ AtLookup => (MissTaken <=> (~FirstFull /\ ~SecondFull))]_vars

\* The loop is at a lookup whose iw1 is the key of the first tuple, which
\* does not match iw2, and not the key of the second tuple: the step from
\* here is a miss that replaces the second tuple.
C19_Witness ==
  /\ AtLookup
  /\ srcbuf \in BucketSources
  /\ FirstKey /\ ~FirstFull /\ ~SecondKey

\* C20: termination. Every call of lzav_compress and of lzav_decompress
\* returns, because the cursor strictly advances: in the compressor ip is
\* greater at the start of each iteration of the main loop than at the one
\* before (a miss adds 1, or a skip of at least 2, and 4 or more once
\* mavg < 100 << 15, where 100 - ( mavg >> 15 ) > 0; a block written moves
\* ip forward even when the match was moved back over lc < 6 literals), and
\* each iteration of the decoder's loop moves its ip by at least 2 bytes or
\* returns an error. The cursors are bounded: the compressor's ip, which
\* a skip of up to 104 bytes may carry past ipet and past ipe, stays below
\* ipet + 104, and the decoder's ip never passes the source's end. The
\* actions of each loop cover its condition and the condition's negation,
\* so with the steps taken (WF_vars(Next)) every call returns.
C20_Termination ==
  /\ [][(pc = "c_loop" /\ pc' = "c_loop") => enc'.ip > enc.ip]_vars
  /\ [][(MissTaken /\ enc.ip # enc.ipa /\ enc'.mavg < 100 * 32768)
          => enc'.ip >= enc.ip + 4]_vars
  /\ [][(pc = "d_loop" /\ dec.ip < dargs.srcl - 5)
          => \/ pc' = "d_loop" /\ dec'.ip >= dec.ip + 2
             \/ pc' = "d_ret" /\ dret' < 0]_vars
  /\ [](pc = "c_loop" => enc.ip < ipet(cargs.srcl) + 104)
  /\ [](pc = "d_loop" => dec.ip <= dargs.srcl)

\* A call of lzav_compress that went through misses and a block written
\* has returned, and so has the call of lzav_decompress on its stream.
C20_Witness ==
  /\ pc = "d_ret" /\ dret = cargs.srcl
  /\ cargs.srcl = MaxLen
  /\ calls # <<>>
  /\ enc.mavg < 100 * 4194304

\* C21: compressor memory safety. For every source of length srcl > 0 and
\* dstl >= lzav_compress_bound( srcl ), every source index lzav_compress
\* reads is in [0, srcl), every destination index it writes is below dstl,
\* and, once it has returned, below the length it returned. The reads are
\* the 6 bytes hashed at ip, the 2 bytes compared at a stored offset, the
\* loads of lzav_match_len at ip and wp, also moved back by lc, and the
\* copies of the block writers, whose fixed widths of 8, 16 and 24 bytes
\* exceed lc; the writes are those of the block writers.
C21_CompressorMemSafe ==
  (/\ pc \in {"c_loop", "c_ret"}
   /\ cargs.srcl > 0
   /\ cargs.dstl >= enc.bound)
    => /\ AccIn(w.rd, cargs.srcl)
       /\ AccIn(w.wr, cargs.dstl)
       /\ (pc = "c_ret" => w.wr[2] < cret)

====
